---- MODULE Spec2Model ----
(***************************************************************************)
(* CSecp256k1: the C helper layer of the Secp256k1Swift package            *)
(* (Sources/CSecp256k1/CSecp256k1.c and include/CSecp256k1.h).             *)
(*                                                                         *)
(* The helpers are thin wrappers over libsecp256k1, which CSecp256k1.h     *)
(* includes (secp256k1.h, secp256k1_recovery.h) but which is not part of   *)
(* the sources at hand.  The library functions the helpers call are        *)
(* modelled here from the library's API contract; the helpers themselves   *)
(* are translated statement by statement from CSecp256k1.c.                *)
(*                                                                         *)
(* Scale.  The curve is y^2 = x^3 + 7 as in secp256k1, over the field of   *)
(* CurveP = 43 elements, where its group has prime order CurveN = 31       *)
(* (CurveN < CurveP, as for secp256k1, so an x coordinate may exceed the   *)
(* group order).  A "byte" is a digit in 0..ByteBase-1 and a scalar or a   *)
(* field element is serialized big-endian on ScalarBytes bytes, so the     *)
(* 32-byte buffers become 2-byte buffers, the 64-byte compact signature a  *)
(* 4-byte buffer, and the 33/65-byte public keys 3/5-byte buffers.         *)
(***************************************************************************)
EXTENDS Integers, Sequences, FiniteSets, TLC

\* ------------------------------------------------------------ parameters

CurveP == 43
CurveN == 31
CurveB == 7
GenX == 2
GenY == 12
ByteBase == 8
ScalarBytes == 2

\* Bounds of the inputs the callers draw.
MaxScalar == 33
MaxDigest == 2
MaxPubKeys == 2
NThreads == 2
MaxTweak == 3
MaxCalls == 2

\* SECP256K1_EC_COMPRESSED / SECP256K1_EC_UNCOMPRESSED output lengths (33 / 65).
CompressedLen == 1 + ScalarBytes
UncompressedLen == 1 + ScalarBytes + ScalarBytes
SigLen == ScalarBytes + ScalarBytes

\* SEC1 tag bytes.
SECP256K1_TAG_PUBKEY_EVEN == 2
SECP256K1_TAG_PUBKEY_ODD == 3
SECP256K1_TAG_PUBKEY_UNCOMPRESSED == 4
SECP256K1_TAG_PUBKEY_HYBRID_EVEN == 6
SECP256K1_TAG_PUBKEY_HYBRID_ODD == 7

\* ----------------------------------------------------------- evaluation
\* With1(F, a) is F(a), With2(F, a, b) is F(a, b): the arguments are evaluated
\* once and F receives their values.

With1(F(_), a) == CHOOSE r \in { F(x) : x \in {a} } : TRUE
With2(F(_, _), a, b) == CHOOSE r \in { F(x, y) : x \in {a}, y \in {b} } : TRUE

\* << F(1), ..., F(len) >>: a table computed once.
RECURSIVE Tabulate(_, _)
Tabulate(F(_), len) == IF len = 0 THEN << >> ELSE Append(Tabulate(F, len - 1), F(len))

\* ------------------------------------------------------- byte encodings

RECURSIVE PowBase(_)
PowBase(len) == IF len = 0 THEN 1 ELSE ByteBase * PowBase(len - 1)

ScalarSpace == PowBase(ScalarBytes)

\* secp256k1_scalar_get_b32 / secp256k1_fe_get_b32: big-endian, zero padded.
RECURSIVE SerDigits(_, _)
SerDigits(v, len) ==
    IF len = 0 THEN << >>
    ELSE Append(SerDigits(v \div ByteBase, len - 1), v % ByteBase)

Ser32(v0) == LET F(v) == SerDigits(v, ScalarBytes) IN With1(F, v0)

\* The integer the big-endian bytes from..to of a buffer denote (0 from an
\* empty range; a byte the buffer does not have reads as 0).
RECURSIVE ParseRange(_, _, _)
ParseRange(bytes, from, to) ==
    IF to < from THEN 0
    ELSE ParseRange(bytes, from, to - 1) * ByteBase
         + (IF to <= Len(bytes) THEN bytes[to] ELSE 0)

ParseBE(b0) == LET F(bytes) == ParseRange(bytes, 1, Len(bytes)) IN With1(F, b0)

Zeros(len) == [i \in 1..len |-> 0]

\* ------------------------------------------------------ field and group

FInvOf(a) == CHOOSE b \in 1..(CurveP - 1) : (a * b) % CurveP = 1
FInvTable == Tabulate(FInvOf, CurveP - 1)
FInv(a) == FInvTable[a]
FSub(a, b) == (a + CurveP - (b % CurveP)) % CurveP

Inf == [inf |-> TRUE, x |-> 0, y |-> 0]
Pt(x, y) == [inf |-> FALSE, x |-> x, y |-> y]
Gen == Pt(GenX, GenY)

OnCurve(x, y) == (y * y) % CurveP = (x * x * x + CurveB) % CurveP

PointNeg(A0) ==
    LET F(A) == IF A.inf THEN Inf ELSE Pt(A.x, (CurveP - A.y) % CurveP) IN With1(F, A0)

\* The chord-and-tangent sum of two points, given the slope.
PointOnLine(A, B, lam) ==
    LET F(x3) == Pt(x3, FSub(lam * FSub(A.x, x3), A.y))
    IN With1(F, FSub(FSub(lam * lam, A.x), B.x))

PointAdd(A0, B0) ==
    LET F(A, B) ==
          IF A.inf THEN B
          ELSE IF B.inf THEN A
          ELSE IF A.x = B.x /\ (A.y + B.y) % CurveP = 0 THEN Inf
          ELSE LET L(lam) == PointOnLine(A, B, lam) IN
               With1(L, IF A.x = B.x
                        THEN (3 * A.x * A.x * FInv((2 * A.y) % CurveP)) % CurveP
                        ELSE (FSub(B.y, A.y) * FInv(FSub(B.x, A.x))) % CurveP)
    IN With2(F, A0, B0)

\* << 1.G, 2.G, ..., len.G >>
RECURSIVE GenMultiples(_)
GenMultiples(len) ==
    IF len = 1 THEN << Gen >>
    ELSE LET F(t) == Append(t, PointAdd(t[len - 1], Gen)) IN With1(F, GenMultiples(len - 1))

GenTable == GenMultiples(CurveN - 1)

\* k.G
GMul(k0) == LET F(k) == IF k = 0 THEN Inf ELSE GenTable[k] IN With1(F, k0 % CurveN)

\* Every point of the curve is a multiple of Gen (the group has prime order):
\* the table gives, for a point, the k with k.G = the point.
PointIndex(A) == 2 * A.x + (A.y % 2) + 1
DLogOf(t, i) ==
    IF \E k \in 1..(CurveN - 1) : PointIndex(t[k]) = i
    THEN CHOOSE k \in 1..(CurveN - 1) : PointIndex(t[k]) = i
    ELSE 0
DLogTable ==
    LET F(t) == LET D(i) == DLogOf(t, i) IN Tabulate(D, 2 * CurveP) IN With1(F, GenTable)
DLog(A0) == LET F(A) == DLogTable[PointIndex(A)] IN With1(F, A0)

\* secp256k1_ecmult: k.A
PointMul(k, A0) ==
    LET F(A) == IF A.inf THEN Inf ELSE GMul((k % CurveN) * DLog(A)) IN With1(F, A0)

SInvOf(a) == CHOOSE b \in 1..(CurveN - 1) : (a * b) % CurveN = 1
SInvTable == Tabulate(SInvOf, CurveN - 1)
SInv(a) == SInvTable[a]

\* secp256k1_scalar_is_high: s > n/2
ScalarIsHigh(s) == s > (CurveN - 1) \div 2

\* secp256k1_ge_set_xo_var: the point of abscissa x whose y has the given
\* parity (the table holds, for x = i - 1, the even root y of x^3 + 7, or
\* CurveP when x^3 + 7 is no square; the odd root is CurveP minus the even one).
EvenRootOf(i) ==
    IF \E y \in 0..(CurveP - 1) : OnCurve(i - 1, y) /\ y % 2 = 0
    THEN CHOOSE y \in 0..(CurveP - 1) : OnCurve(i - 1, y) /\ y % 2 = 0
    ELSE CurveP
EvenRootTable == Tabulate(EvenRootOf, CurveP)
HasXo(x) == x < CurveP /\ EvenRootTable[x + 1] < CurveP
SetXo(x, odd) ==
    Pt(x, IF odd = 0 THEN EvenRootTable[x + 1] ELSE CurveP - EvenRootTable[x + 1])

\* -------------------------------------------------------------- context

\* secp256k1_context_create(flags): the precomputed tables the flags ask for,
\* the generator-multiplication blinding (scalar_offset, ge_offset: the
\* multiplication computes (k + scalar_offset).G + ge_offset) and the default
\* illegal-argument callback, which writes to stderr and aborts the process.
DefaultBlind == 1

secp256k1_context_create(flags) ==
    [ flags |-> flags,
      scalar_offset |-> (CurveN - DefaultBlind) % CurveN,
      ge_offset |-> GMul(DefaultBlind),
      illegal_callback |-> "abort" ]

\* secp256k1_context_randomize-style re-blinding with blind b: the one mutation
\* of a context the library has.  No helper calls it.
Reblind(ctx, b) ==
    [ctx EXCEPT !.scalar_offset = (CurveN - b) % CurveN, !.ge_offset = GMul(b)]

\* secp256k1_ecmult_gen(&ctx->ecmult_gen_ctx, k): k.G through the blinding.
secp256k1_ecmult_gen(ctx, k) ==
    PointAdd(GMul(k + ctx.scalar_offset), ctx.ge_offset)

\* ----------------------------------------------- libsecp256k1: key codec

\* secp256k1_scalar_set_b32_seckey: 1 iff the bytes denote a scalar in [1, n-1].
SeckeyValid(seckey) == LET F(v) == v > 0 /\ v < CurveN IN With1(F, ParseBE(seckey))

\* secp256k1_ec_seckey_verify
secp256k1_ec_seckey_verify(ctx, seckey) == IF SeckeyValid(seckey) THEN 1 ELSE 0

\* A zeroed secp256k1_pubkey (memset(pubkey, 0, sizeof(*pubkey))).
ZeroPubkey == Pt(0, 0)

\* secp256k1_ec_pubkey_create: an illegal-argument call when the context has no
\* signing tables; the pubkey is zeroed when the key is invalid.
secp256k1_ec_pubkey_create(ctx, seckey) ==
    IF "SIGN" \notin ctx.flags
    THEN [ret |-> 0, illegal |-> TRUE, pubkey |-> ZeroPubkey]
    ELSE IF ~SeckeyValid(seckey)
    THEN [ret |-> 0, illegal |-> FALSE, pubkey |-> ZeroPubkey]
    ELSE [ret |-> 1, illegal |-> FALSE,
          pubkey |-> secp256k1_ecmult_gen(ctx, ParseBE(seckey))]

\* secp256k1_eckey_pubkey_serialize: SEC1 bytes of a point.
SerializePoint(A0, compressed) ==
    LET F(A) ==
          IF compressed
          THEN << IF A.y % 2 = 1 THEN SECP256K1_TAG_PUBKEY_ODD
                  ELSE SECP256K1_TAG_PUBKEY_EVEN >> \o Ser32(A.x)
          ELSE << SECP256K1_TAG_PUBKEY_UNCOMPRESSED >> \o Ser32(A.x) \o Ser32(A.y)
    IN With1(F, A0)

\* The first Len(bytes) bytes of buf overwritten by bytes.
WriteBytes(buf0, bytes0) ==
    LET F(buf, bytes) ==
          [i \in 1..Len(buf) |-> IF i <= Len(bytes) THEN bytes[i] ELSE buf[i]]
    IN With2(F, buf0, bytes0)

\* secp256k1_ec_pubkey_serialize(ctx, output, outputlen, pubkey, flags):
\*   ARG_CHECK(*outputlen >= (compressed ? 33 : 65));
\*   len = *outputlen; *outputlen = 0; memset(output, 0, len);
\*   load the pubkey (ARG_CHECK: not the zeroed struct), write the bytes, set
\*   *outputlen.
secp256k1_ec_pubkey_serialize(ctx, output, outputlen, pubkey0, compressed) ==
    LET need == IF compressed THEN CompressedLen ELSE UncompressedLen
        F(pubkey) ==
          IF outputlen < need
          THEN [ret |-> 0, illegal |-> TRUE, output |-> output, outputlen |-> outputlen]
          ELSE IF pubkey = ZeroPubkey \/ pubkey.inf
          THEN [ret |-> 0, illegal |-> TRUE,
                output |-> WriteBytes(output, Zeros(outputlen)), outputlen |-> 0]
          ELSE [ret |-> 1, illegal |-> FALSE,
                output |-> WriteBytes(WriteBytes(output, Zeros(outputlen)),
                                      SerializePoint(pubkey, compressed)),
                outputlen |-> need]
    IN With1(F, pubkey0)

\* secp256k1_eckey_pubkey_parse: compressed (tag 02/03), uncompressed (tag 04)
\* or hybrid (tag 06/07, 65 bytes, the tag repeating the parity of y).
ParsePointXY(len, tag, x, y) ==
    LET bad == [ok |-> FALSE, pt |-> ZeroPubkey]
    IN IF len = CompressedLen
          /\ tag \in {SECP256K1_TAG_PUBKEY_EVEN, SECP256K1_TAG_PUBKEY_ODD}
       THEN IF x < CurveP /\ HasXo(x)
            THEN [ok |-> TRUE,
                  pt |-> SetXo(x, IF tag = SECP256K1_TAG_PUBKEY_ODD THEN 1 ELSE 0)]
            ELSE bad
       ELSE IF len = UncompressedLen
               /\ tag \in {SECP256K1_TAG_PUBKEY_UNCOMPRESSED,
                           SECP256K1_TAG_PUBKEY_HYBRID_EVEN,
                           SECP256K1_TAG_PUBKEY_HYBRID_ODD}
       THEN IF x < CurveP /\ y < CurveP /\ OnCurve(x, y)
               /\ (tag = SECP256K1_TAG_PUBKEY_HYBRID_EVEN => y % 2 = 0)
               /\ (tag = SECP256K1_TAG_PUBKEY_HYBRID_ODD => y % 2 = 1)
            THEN [ok |-> TRUE, pt |-> Pt(x, y)]
            ELSE bad
       ELSE bad

ParsePoint(input0) ==
    LET F(input) ==
          LET G(x, y) ==
                ParsePointXY(Len(input), IF Len(input) > 0 THEN input[1] ELSE 0, x, y)
          IN With2(G, ParseRange(input, 2, 1 + ScalarBytes),
                      ParseRange(input, 2 + ScalarBytes, 1 + ScalarBytes + ScalarBytes))
    IN With1(F, input0)

\* secp256k1_ec_pubkey_parse: memset(pubkey, 0) first, then the parse; the
\* caller's pubkey is zeroed when the parse fails.
secp256k1_ec_pubkey_parse(ctx, input) ==
    LET F(q) == IF q.ok THEN [ret |-> 1, pubkey |-> q.pt]
                ELSE [ret |-> 0, pubkey |-> ZeroPubkey]
    IN With1(F, ParsePoint(input))

\* -------------------------------------------------- libsecp256k1: ECDSA

\* secp256k1_nonce_function_rfc6979(nonce32, msg32, key32, NULL, data, counter):
\* the HMAC-DRBG output is a fixed function of exactly (key32, msg32, data,
\* counter); data = NULL contributes nothing.  The hash is abstracted as a
\* fixed mixing of these inputs into a 32-byte string.
NULL == 0
nonce_function_rfc6979(msg32, key32, data, counter) ==
    Ser32((5 * ParseBE(key32) + 3 * ParseBE(msg32) + 7 * data + 11 * counter + 1)
          % ScalarSpace)

\* secp256k1_ecdsa_sig_sign: r = (k.G).x mod n, s = (m + r.d)/k, low-S
\* normalized with the recovery id's parity bit flipped along (recid ^= high).
SigFromNoncePoint(R, sec, msg, nonce) ==
    LET F(r, s0) ==
          LET rid == (IF R.x >= CurveN THEN 2 ELSE 0) + (R.y % 2)
              high == ScalarIsHigh(s0)
          IN [ ok |-> r # 0 /\ s0 # 0,
               r |-> r,
               s |-> IF high THEN (CurveN - s0) % CurveN ELSE s0,
               recid |-> IF high THEN (IF rid % 2 = 1 THEN rid - 1 ELSE rid + 1) ELSE rid,
               high |-> high ]
        G(r) == With2(F, r, (SInv(nonce) * ((msg + r * sec) % CurveN)) % CurveN)
    IN With1(G, R.x % CurveN)

NoSig == [ok |-> FALSE, r |-> 0, s |-> 0, recid |-> 0, high |-> FALSE]

secp256k1_ecdsa_sig_sign(ctx, sec, msg, nonce) ==
    LET F(R) == IF R.inf THEN NoSig ELSE SigFromNoncePoint(R, sec, msg, nonce)
    IN With1(F, secp256k1_ecmult_gen(ctx, nonce))

\* The nonce loop of secp256k1_ecdsa_sign_inner: count++ until the nonce is a
\* valid scalar and the signature has r, s # 0.
RECURSIVE SignLoop(_, _, _, _, _, _)
SignLoop(ctx, sec, msg32, seckey, noncedata, count) ==
    LET F(nonce) ==
          LET G(sg) ==
                IF nonce > 0 /\ nonce < CurveN /\ sg.ok THEN sg
                ELSE IF count >= ScalarSpace THEN NoSig
                ELSE SignLoop(ctx, sec, msg32, seckey, noncedata, count + 1)
          IN With1(G, IF nonce > 0 /\ nonce < CurveN
                      THEN secp256k1_ecdsa_sig_sign(ctx, sec, ParseBE(msg32) % CurveN, nonce)
                      ELSE NoSig)
    IN With1(F, ParseBE(nonce_function_rfc6979(msg32, seckey, noncedata, count)))

ZeroSig == [r |-> 0, s |-> 0, recid |-> 0]

\* secp256k1_ecdsa_sign_inner: an invalid key is replaced by 1 for the
\* computation and the result is cleared (r = s = 0, recid = 0, ret = 0).
secp256k1_ecdsa_sign_inner(ctx, msg0, key0, noncedata) ==
    LET F(msg32, seckey) ==
          LET valid == SeckeyValid(seckey)
              G(sg) ==
                IF valid /\ sg.ok
                THEN [ret |-> 1, illegal |-> FALSE, high |-> sg.high,
                      sig |-> [r |-> sg.r, s |-> sg.s, recid |-> sg.recid]]
                ELSE [ret |-> 0, illegal |-> FALSE, high |-> FALSE, sig |-> ZeroSig]
          IN With1(G, SignLoop(ctx, IF valid THEN ParseBE(seckey) ELSE 1,
                               msg32, seckey, noncedata, 0))
    IN IF "SIGN" \notin ctx.flags
       THEN [ret |-> 0, illegal |-> TRUE, high |-> FALSE, sig |-> ZeroSig]
       ELSE With2(F, msg0, key0)

\* secp256k1_ecdsa_sign / secp256k1_ecdsa_sign_recoverable (noncefp = NULL
\* selects the RFC 6979 nonce function).
secp256k1_ecdsa_sign(ctx, msg32, seckey, noncedata) ==
    secp256k1_ecdsa_sign_inner(ctx, msg32, seckey, noncedata)

secp256k1_ecdsa_sign_recoverable(ctx, msg32, seckey, noncedata) ==
    secp256k1_ecdsa_sign_inner(ctx, msg32, seckey, noncedata)

\* secp256k1_ecdsa_signature_serialize_compact: r || s.
secp256k1_ecdsa_signature_serialize_compact(sig) == Ser32(sig.r) \o Ser32(sig.s)

\* secp256k1_ecdsa_signature_parse_compact: 0 iff r or s overflows the order
\* (a zero r or s parses; the verification rejects it).
secp256k1_ecdsa_signature_parse_compact(ctx, input64) ==
    LET F(r, s) ==
          IF r >= CurveN \/ s >= CurveN
          THEN [ret |-> 0, sig |-> ZeroSig]
          ELSE [ret |-> 1, sig |-> [r |-> r, s |-> s, recid |-> 0]]
    IN With2(F, ParseBE(SubSeq(input64, 1, ScalarBytes)),
                ParseBE(SubSeq(input64, ScalarBytes + 1, SigLen)))

\* secp256k1_ecdsa_signature_normalize: s replaced by n - s when s is high.
secp256k1_ecdsa_signature_normalize(sig) ==
    IF ScalarIsHigh(sig.s) THEN [sig EXCEPT !.s = (CurveN - sig.s) % CurveN] ELSE sig

\* secp256k1_ecdsa_sig_verify: (u1.G + u2.Q).x mod n = r, with r, s # 0.
secp256k1_ecdsa_sig_verify(r, s, Q, m) ==
    IF r = 0 \/ s = 0 THEN 0
    ELSE LET F(A) == IF ~A.inf /\ A.x % CurveN = r THEN 1 ELSE 0
             G(sn) == With1(F, PointAdd(GMul((sn * m) % CurveN),
                                        PointMul((sn * r) % CurveN, Q)))
         IN With1(G, SInv(s))

\* secp256k1_ecdsa_verify: only signatures in lower-S form are accepted
\* (!secp256k1_scalar_is_high(&s) && load(pubkey) && sig_verify(...)).
secp256k1_ecdsa_verify(ctx, sig, msg32, pubkey) ==
    IF "VERIFY" \notin ctx.flags \/ pubkey = ZeroPubkey
    THEN [ret |-> 0, illegal |-> TRUE]
    ELSE [ret |-> IF ScalarIsHigh(sig.s) THEN 0
                  ELSE secp256k1_ecdsa_sig_verify(sig.r, sig.s, pubkey,
                                                  ParseBE(msg32) % CurveN),
          illegal |-> FALSE]

\* secp256k1_ecdsa_recoverable_signature_parse_compact:
\*   ARG_CHECK(recid >= 0 && recid <= 3), then the overflow check of r and s.
secp256k1_ecdsa_recoverable_signature_parse_compact(ctx, input64, recid) ==
    IF recid < 0 \/ recid > 3
    THEN [ret |-> 0, illegal |-> TRUE, sig |-> ZeroSig]
    ELSE LET F(p) ==
               [ret |-> p.ret, illegal |-> FALSE,
                sig |-> IF p.ret = 1 THEN [p.sig EXCEPT !.recid = recid] ELSE ZeroSig]
         IN With1(F, secp256k1_ecdsa_signature_parse_compact(ctx, input64))

\* secp256k1_ecdsa_sig_recover: x = r (+ n when bit 1 of recid is set and
\* r < p - n), y of the parity in bit 0, Q = r^-1 (s.R - m.G).
secp256k1_ecdsa_sig_recover(r, s, m, recid) ==
    LET bad == [ok |-> FALSE, pt |-> ZeroPubkey]
        x == IF recid \div 2 = 1 THEN r + CurveN ELSE r
        F(Q) == IF Q.inf THEN bad ELSE [ok |-> TRUE, pt |-> Q]
        G(rn) == With1(F, PointAdd(GMul((CurveN - ((rn * m) % CurveN)) % CurveN),
                                   PointMul((rn * s) % CurveN, SetXo(x, recid % 2))))
    IN IF r = 0 \/ s = 0 THEN bad
       ELSE IF recid \div 2 = 1 /\ r >= CurveP - CurveN THEN bad
       ELSE IF ~HasXo(x) THEN bad
       ELSE With1(G, SInv(r))

\* secp256k1_ecdsa_recover: the pubkey is zeroed when the recovery fails.
secp256k1_ecdsa_recover(ctx, sig, msg32) ==
    IF "VERIFY" \notin ctx.flags
    THEN [ret |-> 0, illegal |-> TRUE, pubkey |-> ZeroPubkey]
    ELSE LET F(q) == [ret |-> IF q.ok THEN 1 ELSE 0, illegal |-> FALSE, pubkey |-> q.pt]
         IN With1(F, secp256k1_ecdsa_sig_recover(sig.r, sig.s, ParseBE(msg32) % CurveN,
                                                 sig.recid))

\* ------------------------------------------ libsecp256k1: secret-key tweaks

\* secp256k1_ec_seckey_tweak_add: (seckey + tweak) mod n written back; 0 when
\* the key is invalid, the tweak overflows or the sum is zero, and then the
\* seckey buffer is overwritten with zeros (scalar_cmov + scalar_get_b32).
secp256k1_ec_seckey_tweak_add(ctx, seckey, tweak) ==
    LET F(k, t) ==
          IF k > 0 /\ k < CurveN /\ t < CurveN /\ (k + t) % CurveN # 0
          THEN [ret |-> 1, seckey |-> Ser32((k + t) % CurveN)]
          ELSE [ret |-> 0, seckey |-> Zeros(ScalarBytes)]
    IN With2(F, ParseBE(seckey), ParseBE(tweak))

\* secp256k1_ec_seckey_tweak_mul: 0 when the key is invalid or the tweak is
\* zero or overflows; the seckey buffer is zeroed then.
secp256k1_ec_seckey_tweak_mul(ctx, seckey, tweak) ==
    LET F(k, t) ==
          IF k > 0 /\ k < CurveN /\ t < CurveN /\ t # 0
          THEN [ret |-> 1, seckey |-> Ser32((k * t) % CurveN)]
          ELSE [ret |-> 0, seckey |-> Zeros(ScalarBytes)]
    IN With2(F, ParseBE(seckey), ParseBE(tweak))

\* secp256k1_ec_seckey_negate: n - seckey; an invalid key is zeroed.
secp256k1_ec_seckey_negate(ctx, seckey) ==
    LET F(k) ==
          IF k > 0 /\ k < CurveN
          THEN [ret |-> 1, seckey |-> Ser32((CurveN - k) % CurveN)]
          ELSE [ret |-> 0, seckey |-> Zeros(ScalarBytes)]
    IN With1(F, ParseBE(seckey))

\* ================================================================ helpers
\* CSecp256k1.c.  A helper's result is a record: ret, the int it returns;
\* abort, TRUE when a library call inside it reported an illegal argument and
\* the context's callback ended the process (the helper then never returns);
\* and the caller's buffers as the call leaves them.

\* An ARG_CHECK failed in a library call and the callback aborts.
Aborts(ctx, res) == res.illegal /\ ctx.illegal_callback = "abort"

secp256k1_context_create_sign_verify == secp256k1_context_create({"SIGN", "VERIFY"})

secp256k1_pubkey_create_helper(ctx, output, output_len, private_key, compressed) ==
    LET Serialized(s) ==
          IF s.ret = 0
          THEN [ret |-> 0, abort |-> Aborts(ctx, s),
                output |-> s.output, output_len |-> s.outputlen]
          ELSE [ret |-> 1, abort |-> FALSE,
                output |-> s.output, output_len |-> s.outputlen]
        Created(c) ==
          IF c.ret = 0
          THEN [ret |-> 0, abort |-> Aborts(ctx, c),
                output |-> output, output_len |-> output_len]
          ELSE With1(Serialized,
                     secp256k1_ec_pubkey_serialize(ctx, output, output_len, c.pubkey,
                                                   compressed))
    IN With1(Created, secp256k1_ec_pubkey_create(ctx, private_key))

secp256k1_pubkey_parse_helper(ctx, pubkey, input) ==
    LET Parsed(q) == [ret |-> q.ret, abort |-> FALSE, pubkey |-> q.pubkey]
    IN With1(Parsed, secp256k1_ec_pubkey_parse(ctx, input))

\* Variant of the sign helper that returns success without serializing the
\* signature into the caller's buffer.
SignHelperUnserialized(ctx, output, msg32, private_key) ==
    LET Signed(g) ==
          IF g.ret = 0
          THEN [ret |-> 0, abort |-> Aborts(ctx, g), output |-> output]
          ELSE [ret |-> 1, abort |-> FALSE, output |-> output]
    IN With1(Signed, secp256k1_ecdsa_sign(ctx, msg32, private_key, NULL))

\* Variant of the sign helper that hands the library the output buffer as the
\* nonce function's extra data instead of NULL.
SignHelperBufferNonce(ctx, output, msg32, private_key) ==
    LET Signed(g) ==
          IF g.ret = 0
          THEN [ret |-> 0, abort |-> Aborts(ctx, g), output |-> output]
          ELSE [ret |-> 1, abort |-> FALSE,
                output |-> WriteBytes(output,
                                      secp256k1_ecdsa_signature_serialize_compact(g.sig))]
    IN With1(Signed, secp256k1_ecdsa_sign(ctx, msg32, private_key,
                                          ParseBE(SubSeq(output, 1, ScalarBytes))))

\* Variant of the sign helper that writes the signature as s || r.
SignHelperSwapped(ctx, output, msg32, private_key) ==
    LET Signed(g) ==
          IF g.ret = 0
          THEN [ret |-> 0, abort |-> Aborts(ctx, g), output |-> output]
          ELSE [ret |-> 1, abort |-> FALSE,
                output |-> WriteBytes(output, Ser32(g.sig.s) \o Ser32(g.sig.r))]
    IN With1(Signed, secp256k1_ecdsa_sign(ctx, msg32, private_key, NULL))

secp256k1_ecdsa_sign_helper(ctx, output, msg32, private_key) ==
    LET Signed(g) ==
          IF g.ret = 0
          THEN [ret |-> 0, abort |-> Aborts(ctx, g), output |-> output]
          ELSE [ret |-> 1, abort |-> FALSE,
                output |-> WriteBytes(output,
                                      secp256k1_ecdsa_signature_serialize_compact(g.sig))]
    IN With1(Signed, secp256k1_ecdsa_sign(ctx, msg32, private_key, NULL))

secp256k1_ecdsa_sign_recoverable_helper(ctx, output, recid, msg32, private_key) ==
    LET Signed(g) ==
          IF g.ret = 0
          THEN [ret |-> 0, abort |-> Aborts(ctx, g), output |-> output, recid |-> recid]
          ELSE [ret |-> 1, abort |-> FALSE,
                output |-> WriteBytes(output,
                                      secp256k1_ecdsa_signature_serialize_compact(g.sig)),
                recid |-> g.sig.recid]
    IN With1(Signed, secp256k1_ecdsa_sign_recoverable(ctx, msg32, private_key, NULL))

\* Variant of the verify helper that does not test the result of parsing the
\* public key.
VerifyHelperKeyUnchecked(ctx, sig64, msg32, pubkey_data) ==
    LET Verified(v) == [ret |-> v.ret, abort |-> Aborts(ctx, v)]
        ParsedKey(g, q) ==
          With1(Verified, secp256k1_ecdsa_verify(ctx, g.sig, msg32, q.pubkey))
        ParsedSig(g) ==
          IF g.ret = 0 THEN [ret |-> 0, abort |-> FALSE]
          ELSE With2(ParsedKey, g, secp256k1_ec_pubkey_parse(ctx, pubkey_data))
    IN With1(ParsedSig, secp256k1_ecdsa_signature_parse_compact(ctx, sig64))

\* Variant of the verify helper that normalizes the parsed signature to its
\* lower-S form before verifying it.
VerifyHelperNormalizing(ctx, sig64, msg32, pubkey_data) ==
    LET Verified(v) == [ret |-> v.ret, abort |-> Aborts(ctx, v)]
        ParsedKey(g, q) ==
          IF q.ret = 0 THEN [ret |-> 0, abort |-> FALSE]
          ELSE With1(Verified,
                     secp256k1_ecdsa_verify(ctx,
                                            secp256k1_ecdsa_signature_normalize(g.sig),
                                            msg32, q.pubkey))
        ParsedSig(g) ==
          IF g.ret = 0 THEN [ret |-> 0, abort |-> FALSE]
          ELSE With2(ParsedKey, g, secp256k1_ec_pubkey_parse(ctx, pubkey_data))
    IN With1(ParsedSig, secp256k1_ecdsa_signature_parse_compact(ctx, sig64))

secp256k1_ecdsa_verify_helper(ctx, sig64, msg32, pubkey_data) ==
    LET Verified(v) == [ret |-> v.ret, abort |-> Aborts(ctx, v)]
        ParsedKey(g, q) ==
          IF q.ret = 0 THEN [ret |-> 0, abort |-> FALSE]
          ELSE With1(Verified, secp256k1_ecdsa_verify(ctx, g.sig, msg32, q.pubkey))
        ParsedSig(g) ==
          IF g.ret = 0 THEN [ret |-> 0, abort |-> FALSE]
          ELSE With2(ParsedKey, g, secp256k1_ec_pubkey_parse(ctx, pubkey_data))
    IN With1(ParsedSig, secp256k1_ecdsa_signature_parse_compact(ctx, sig64))

\* Variant of the recover helper with the serialization flags of the two
\* formats exchanged.
RecoverHelperFlagsSwapped(ctx, output, output_len, sig64, recid, msg32, compressed) ==
    LET Serialized(s) ==
          IF s.ret = 0
          THEN [ret |-> 0, abort |-> Aborts(ctx, s),
                output |-> s.output, output_len |-> s.outputlen]
          ELSE [ret |-> 1, abort |-> FALSE,
                output |-> s.output, output_len |-> s.outputlen]
        Recovered(q) ==
          IF q.ret = 0
          THEN [ret |-> 0, abort |-> Aborts(ctx, q),
                output |-> output, output_len |-> output_len]
          ELSE With1(Serialized,
                     secp256k1_ec_pubkey_serialize(ctx, output, output_len, q.pubkey,
                                                   ~compressed))
        ParsedSig(g) ==
          IF g.ret = 0
          THEN [ret |-> 0, abort |-> Aborts(ctx, g),
                output |-> output, output_len |-> output_len]
          ELSE With1(Recovered, secp256k1_ecdsa_recover(ctx, g.sig, msg32))
    IN With1(ParsedSig,
             secp256k1_ecdsa_recoverable_signature_parse_compact(ctx, sig64, recid))

secp256k1_ecdsa_recover_helper(ctx, output, output_len, sig64, recid, msg32, compressed) ==
    LET Serialized(s) ==
          IF s.ret = 0
          THEN [ret |-> 0, abort |-> Aborts(ctx, s),
                output |-> s.output, output_len |-> s.outputlen]
          ELSE [ret |-> 1, abort |-> FALSE,
                output |-> s.output, output_len |-> s.outputlen]
        Recovered(q) ==
          IF q.ret = 0
          THEN [ret |-> 0, abort |-> Aborts(ctx, q),
                output |-> output, output_len |-> output_len]
          ELSE With1(Serialized,
                     secp256k1_ec_pubkey_serialize(ctx, output, output_len, q.pubkey,
                                                   compressed))
        ParsedSig(g) ==
          IF g.ret = 0
          THEN [ret |-> 0, abort |-> Aborts(ctx, g),
                output |-> output, output_len |-> output_len]
          ELSE With1(Recovered, secp256k1_ecdsa_recover(ctx, g.sig, msg32))
    IN With1(ParsedSig,
             secp256k1_ecdsa_recoverable_signature_parse_compact(ctx, sig64, recid))

\* Variant of the tweak-add helper that calls the multiplicative tweak.
TweakAddHelperAsMul(ctx, seckey, tweak) ==
    LET Tweaked(r) == [ret |-> r.ret, abort |-> FALSE, seckey |-> r.seckey]
    IN With1(Tweaked, secp256k1_ec_seckey_tweak_mul(ctx, seckey, tweak))

secp256k1_ec_privkey_tweak_add_helper(ctx, seckey, tweak) ==
    LET Tweaked(r) == [ret |-> r.ret, abort |-> FALSE, seckey |-> r.seckey]
    IN With1(Tweaked, secp256k1_ec_seckey_tweak_add(ctx, seckey, tweak))

secp256k1_ec_privkey_tweak_mul_helper(ctx, seckey, tweak) ==
    LET Tweaked(r) == [ret |-> r.ret, abort |-> FALSE, seckey |-> r.seckey]
    IN With1(Tweaked, secp256k1_ec_seckey_tweak_mul(ctx, seckey, tweak))

secp256k1_ec_privkey_negate_helper(ctx, seckey) ==
    LET Negated(r) == [ret |-> r.ret, abort |-> FALSE, seckey |-> r.seckey]
    IN With1(Negated, secp256k1_ec_seckey_negate(ctx, seckey))

secp256k1_ec_seckey_verify_helper(ctx, seckey) ==
    [ret |-> secp256k1_ec_seckey_verify(ctx, seckey), abort |-> FALSE]

secp256k1_ec_pubkey_verify_helper(ctx, pubkey_data) ==
    [ret |-> secp256k1_ec_pubkey_parse(ctx, pubkey_data).ret, abort |-> FALSE]

\* Variant in which the signing helpers re-blind the context they are given.
ContextReblinded(name, ctx) ==
    IF name \in {"sign", "sign_recoverable"}
    THEN Reblind(ctx, 1 + ((CurveN - ctx.scalar_offset) % (CurveN - 1)))
    ELSE ctx

\* Every helper takes the context as const secp256k1_context*: whatever the
\* helper, the context after the call is the context before it.
ContextAfterHelper(name, ctx) == ctx

\* ================================================================== state

VARIABLES
    ctx,      \* the secp256k1_context the caller created and shares
    aborted,  \* the process was ended by the illegal-argument callback
    op,       \* the helper called last ("none": no call yet)
    ret,      \* what it returned
    arg,      \* the inputs of that call, and the in/out buffers as passed in
    mem,      \* the caller's output buffers
    prev,     \* the call before the last one: [op, ret, arg]
    prov,     \* which successful calls the buffers' contents come from
    th        \* the threads sharing ctx (concurrent callers)

vars == << ctx, aborted, op, ret, arg, mem, prev, prov, th >>

\* ----------------------------------------------------------------- inputs

RawScalars == 0..MaxScalar
Keys32 == { Ser32(v) : v \in RawScalars }
Digests == { Ser32(v) : v \in 0..MaxDigest }
Sigs64 == { Ser32(r) \o Ser32(s) : r \in RawScalars, s \in RawScalars }
RecIds == (0 - 1)..4
\* (compressed flag, *output_len as the caller sets it): the two exact sizes, a
\* large buffer for a compressed key, and a buffer too small for the format.
OutputModes ==
    { << TRUE, CompressedLen >>, << FALSE, UncompressedLen >>,
      << TRUE, UncompressedLen >>, << FALSE, CompressedLen >> }

HybridTag(A) ==
    IF A.y % 2 = 1 THEN SECP256K1_TAG_PUBKEY_HYBRID_ODD ELSE SECP256K1_TAG_PUBKEY_HYBRID_EVEN

\* Public-key byte strings a caller may pass: the three encodings of the first
\* MaxPubKeys multiples of the generator, and malformed strings of each kind.
PubEncodings(A) ==
    { SerializePoint(A, TRUE),
      SerializePoint(A, FALSE),
      << HybridTag(A) >> \o Ser32(A.x) \o Ser32(A.y) }

PubMalformed(A) ==
    { << >>,
      Ser32(A.x),
      Ser32(A.x) \o Ser32(A.y),
      << SECP256K1_TAG_PUBKEY_UNCOMPRESSED >> \o Ser32(A.x),
      << SECP256K1_TAG_PUBKEY_EVEN >> \o Ser32(A.x) \o Ser32(A.y),
      << 5 >> \o Ser32(A.x) \o Ser32(A.y),
      << 0 >> \o Ser32(A.x),
      << HybridTag(PointNeg(A)) >> \o Ser32(A.x) \o Ser32(A.y),
      << SECP256K1_TAG_PUBKEY_UNCOMPRESSED >> \o Ser32(A.x) \o Ser32((A.y + 1) % CurveP),
      << SECP256K1_TAG_PUBKEY_EVEN >> \o Ser32(A.x + CurveP),
      << SECP256K1_TAG_PUBKEY_EVEN >> \o Ser32(0),
      << SECP256K1_TAG_PUBKEY_UNCOMPRESSED >> \o Ser32(0) \o Ser32(0) }

PubInputs ==
    UNION { PubEncodings(GMul(k)) \cup PubMalformed(GMul(k)) : k \in 1..MaxPubKeys }

\* ----------------------------------------------------------------- memory

\* Buffers before any call: filled with the byte FF, the int with a value no
\* recovery id has, the parsed key with a key parsed earlier.
FillByte == ByteBase - 1
Fill(len) == [i \in 1..len |-> FillByte]

FreshMem ==
    [ seckey |-> Fill(ScalarBytes),
      sig64 |-> Fill(SigLen),
      recid |-> FillByte,
      output |-> Fill(UncompressedLen),
      output_len |-> UncompressedLen,
      recovered |-> Fill(UncompressedLen),
      recovered_len |-> UncompressedLen,
      pubkey |-> Gen ]

NoArg ==
    [ private_key |-> << >>, msg32 |-> << >>, sig64 |-> << >>, recid |-> 0,
      pubkey_data |-> << >>, compressed |-> FALSE, tweak |-> << >>,
      seckey |-> << >>, output_len |-> 0 ]

NoCall == [op |-> "none", ret |-> 0, arg |-> NoArg]
\* sig: the helper whose successful call filled sig64 (and recid); out, rec: the
\* format of the key a successful pubkey_create left in output, a successful
\* recover of the session's own recoverable signature left in recovered;
\* first: the first sign call's result; nsign: the sign calls so far (2: two or
\* more); mixed: another helper was called after the first sign; ncalls: the
\* calls so far.
NoProv ==
    [ sig |-> "none", out |-> "none", rec |-> "none", first |-> << >>,
      nsign |-> 0, mixed |-> FALSE, ncalls |-> 0 ]
NoRet == 0 - 1

\* ------------------------------------------------------------------ calls
\* One call of a helper by the caller: the helper runs on the caller's
\* buffers (m: the memory as the caller prepared it), and the state records
\* the call, its inputs and what it left in memory.  An aborted process makes
\* no further call.

Returned(name, a, h, m) ==
    /\ ~aborted
    /\ op' = name
    /\ arg' = a
    /\ aborted' = h.abort
    /\ ret' = IF h.abort THEN NoRet ELSE h.ret
    /\ mem' = m
    /\ ctx' = ContextAfterHelper(name, ctx)

DoPubkeyCreate(base, m, len_in, compressed) ==
    \E h \in { secp256k1_pubkey_create_helper(ctx, m.output, len_in,
                                              base.private_key, compressed) } :
      Returned("pubkey_create",
               [base EXCEPT !.compressed = compressed, !.output_len = len_in], h,
               [m EXCEPT !.output = h.output, !.output_len = h.output_len])

DoPubkeyParse(base, m, input) ==
    \E h \in { secp256k1_pubkey_parse_helper(ctx, m.pubkey, input) } :
      Returned("pubkey_parse", [base EXCEPT !.pubkey_data = input], h,
               [m EXCEPT !.pubkey = h.pubkey])

DoSign(base, m) ==
    \E h \in { secp256k1_ecdsa_sign_helper(ctx, m.sig64, base.msg32, base.private_key) } :
      Returned("sign", base, h, [m EXCEPT !.sig64 = h.output])

DoSignRecoverable(base, m) ==
    \E h \in { secp256k1_ecdsa_sign_recoverable_helper(ctx, m.sig64, m.recid,
                                                       base.msg32, base.private_key) } :
      Returned("sign_recoverable", base, h,
               [m EXCEPT !.sig64 = h.output, !.recid = h.recid])

DoVerify(base, m, sig64, pubkey_data) ==
    \E h \in { secp256k1_ecdsa_verify_helper(ctx, sig64, base.msg32, pubkey_data) } :
      Returned("verify", [base EXCEPT !.sig64 = sig64, !.pubkey_data = pubkey_data], h, m)

DoRecover(base, m, len_in, sig64, recid, compressed) ==
    \E h \in { secp256k1_ecdsa_recover_helper(ctx, m.recovered, len_in, sig64, recid,
                                              base.msg32, compressed) } :
      Returned("recover",
               [base EXCEPT !.sig64 = sig64, !.recid = recid,
                            !.compressed = compressed, !.output_len = len_in], h,
               [m EXCEPT !.recovered = h.output, !.recovered_len = h.output_len])

DoTweakAdd(base, m, tweak) ==
    \E h \in { secp256k1_ec_privkey_tweak_add_helper(ctx, m.seckey, tweak) } :
      Returned("tweak_add", [base EXCEPT !.seckey = m.seckey, !.tweak = tweak], h,
               [m EXCEPT !.seckey = h.seckey])

DoTweakMul(base, m, tweak) ==
    \E h \in { secp256k1_ec_privkey_tweak_mul_helper(ctx, m.seckey, tweak) } :
      Returned("tweak_mul", [base EXCEPT !.seckey = m.seckey, !.tweak = tweak], h,
               [m EXCEPT !.seckey = h.seckey])

DoNegate(base, m) ==
    \E h \in { secp256k1_ec_privkey_negate_helper(ctx, m.seckey) } :
      Returned("negate", [base EXCEPT !.seckey = m.seckey], h,
               [m EXCEPT !.seckey = h.seckey])

DoSeckeyVerify(base, m) ==
    \E h \in { secp256k1_ec_seckey_verify_helper(ctx, base.private_key) } :
      Returned("seckey_verify", base, h, m)

DoPubkeyVerify(base, m, input) ==
    \E h \in { secp256k1_ec_pubkey_verify_helper(ctx, input) } :
      Returned("pubkey_verify", [base EXCEPT !.pubkey_data = input], h, m)

\* ======================================================= single calls
\* SpecCall: one call of one helper on fresh buffers, its inputs drawn from the
\* bounded input sets.

InitCall ==
    /\ ctx = secp256k1_context_create_sign_verify
    /\ aborted = FALSE
    /\ op = "none"
    /\ ret = 0
    /\ arg = NoArg
    /\ mem = FreshMem
    /\ prev = NoCall
    /\ prov = NoProv
    /\ th = << >>

CallPubkeyCreate ==
    /\ op = "none"
    /\ \E k \in Keys32, om \in OutputModes :
         DoPubkeyCreate([NoArg EXCEPT !.private_key = k],
                        [FreshMem EXCEPT !.output_len = om[2]], om[2], om[1])
    /\ UNCHANGED << prev, prov, th >>

CallPubkeyParse ==
    /\ op = "none"
    /\ \E input \in PubInputs : DoPubkeyParse(NoArg, FreshMem, input)
    /\ UNCHANGED << prev, prov, th >>

CallSign ==
    /\ op = "none"
    /\ \E k \in Keys32, d \in Digests :
         DoSign([NoArg EXCEPT !.private_key = k, !.msg32 = d], FreshMem)
    /\ UNCHANGED << prev, prov, th >>

CallSignRecoverable ==
    /\ op = "none"
    /\ \E k \in Keys32, d \in Digests :
         DoSignRecoverable([NoArg EXCEPT !.private_key = k, !.msg32 = d], FreshMem)
    /\ UNCHANGED << prev, prov, th >>

CallVerify ==
    /\ op = "none"
    /\ \E sig \in Sigs64, d \in Digests, pk \in PubInputs :
         DoVerify([NoArg EXCEPT !.msg32 = d], FreshMem, sig, pk)
    /\ UNCHANGED << prev, prov, th >>

CallRecover ==
    /\ op = "none"
    /\ \E sig \in Sigs64, id \in RecIds, d \in Digests, om \in OutputModes :
         DoRecover([NoArg EXCEPT !.msg32 = d],
                   [FreshMem EXCEPT !.recovered_len = om[2]], om[2], sig, id, om[1])
    /\ UNCHANGED << prev, prov, th >>

CallTweakAdd ==
    /\ op = "none"
    /\ \E k \in Keys32, t \in Keys32 :
         DoTweakAdd(NoArg, [FreshMem EXCEPT !.seckey = k], t)
    /\ UNCHANGED << prev, prov, th >>

CallTweakMul ==
    /\ op = "none"
    /\ \E k \in Keys32, t \in Keys32 :
         DoTweakMul(NoArg, [FreshMem EXCEPT !.seckey = k], t)
    /\ UNCHANGED << prev, prov, th >>

CallNegate ==
    /\ op = "none"
    /\ \E k \in Keys32 : DoNegate(NoArg, [FreshMem EXCEPT !.seckey = k])
    /\ UNCHANGED << prev, prov, th >>

CallSeckeyVerify ==
    /\ op = "none"
    /\ \E k \in Keys32 : DoSeckeyVerify([NoArg EXCEPT !.private_key = k], FreshMem)
    /\ UNCHANGED << prev, prov, th >>

CallPubkeyVerify ==
    /\ op = "none"
    /\ \E input \in PubInputs : DoPubkeyVerify(NoArg, FreshMem, input)
    /\ UNCHANGED << prev, prov, th >>

NextCall ==
    \/ CallPubkeyCreate
    \/ CallPubkeyParse
    \/ CallSign
    \/ CallSignRecoverable
    \/ CallVerify
    \/ CallRecover
    \/ CallTweakAdd
    \/ CallTweakMul
    \/ CallNegate
    \/ CallSeckeyVerify
    \/ CallPubkeyVerify

SpecCall == InitCall /\ [][NextCall]_vars

\* ======================================================= signing session
\* Spec: a caller holding one private key and one digest calls the helpers in
\* any order, any number of times, on its buffers: sig64/recid receive the
\* signatures, output the derived public key, recovered the recovered one, and
\* verify, recover and the key parsers read what the earlier calls wrote.

Init ==
    /\ ctx = secp256k1_context_create_sign_verify
    /\ aborted = FALSE
    /\ op = "none"
    /\ ret = 0
    /\ \E k \in Keys32, d \in Digests :
         arg = [NoArg EXCEPT !.private_key = k, !.msg32 = d]
    /\ mem = FreshMem
    /\ prev = NoCall
    /\ prov = NoProv
    /\ th = << >>

SessionBase == [NoArg EXCEPT !.private_key = arg.private_key, !.msg32 = arg.msg32]

Format(compressed) == IF compressed THEN "compressed" ELSE "uncompressed"

\* The bytes a serialization left: the first output_len bytes of the buffer.
OutputBytes == SubSeq(mem.output, 1, mem.output_len)
RecoveredBytes == SubSeq(mem.recovered, 1, mem.recovered_len)

OtherCall == [prov EXCEPT !.mixed = (prov.nsign > 0) \/ @]

PubkeyCreate ==
    /\ \E c \in BOOLEAN :
         /\ DoPubkeyCreate(SessionBase, [mem EXCEPT !.output_len = UncompressedLen],
                           UncompressedLen, c)
         /\ prov' = [OtherCall EXCEPT !.out = IF ret' = 1 THEN Format(c) ELSE @]
    /\ UNCHANGED << prev, th >>

Sign ==
    /\ DoSign(SessionBase, mem)
    /\ prov' = [prov EXCEPT
                  !.sig = IF ret' = 1 THEN "sign" ELSE @,
                  !.first = IF @ = << >>
                            THEN << [ret |-> ret', sig64 |-> mem'.sig64] >> ELSE @,
                  !.nsign = IF @ < 2 THEN @ + 1 ELSE @]
    /\ UNCHANGED << prev, th >>

SignRecoverable ==
    /\ DoSignRecoverable(SessionBase, mem)
    /\ prov' = [OtherCall EXCEPT !.sig = IF ret' = 1 THEN "sign_recoverable" ELSE @]
    /\ UNCHANGED << prev, th >>

Verify ==
    /\ DoVerify(SessionBase, mem, mem.sig64, OutputBytes)
    /\ prov' = OtherCall
    /\ UNCHANGED << prev, th >>

Recover ==
    /\ \E c \in BOOLEAN :
         /\ DoRecover(SessionBase, [mem EXCEPT !.recovered_len = UncompressedLen],
                      UncompressedLen, mem.sig64, mem.recid, c)
         /\ prov' = [OtherCall EXCEPT
                       !.rec = IF ret' # 1 THEN @
                               ELSE IF prov.sig = "sign_recoverable" THEN Format(c)
                               ELSE "other"]
    /\ UNCHANGED << prev, th >>


Next ==
    \/ PubkeyCreate
    \/ Sign
    \/ SignRecoverable
    \/ Verify
    \/ Recover

Spec == Init /\ [][Next]_vars

\* ========================================================= tweak session
\* SpecTweak: a caller holding a private key in its seckey buffer applies up to
\* MaxCalls in-place transformations to it, each to the result of the one
\* before.

TweakInputs ==
    { Ser32(t) : t \in (0..MaxTweak) \cup ((CurveN - MaxTweak)..CurveN) }

InitTweak ==
    /\ ctx = secp256k1_context_create_sign_verify
    /\ aborted = FALSE
    /\ op = "none"
    /\ ret = 0
    /\ arg = NoArg
    /\ \E k \in Keys32 : mem = [FreshMem EXCEPT !.seckey = k]
    /\ prev = NoCall
    /\ prov = NoProv
    /\ th = << >>

Chained ==
    /\ prov.ncalls < MaxCalls
    /\ prev' = [op |-> op, ret |-> ret, arg |-> arg]
    /\ prov' = [prov EXCEPT !.ncalls = @ + 1]
    /\ UNCHANGED th

TweakAdd == Chained /\ \E t \in TweakInputs : DoTweakAdd(NoArg, mem, t)

TweakMul == Chained /\ \E t \in TweakInputs : DoTweakMul(NoArg, mem, t)

Negate == Chained /\ DoNegate(NoArg, mem)

NextTweak == TweakAdd \/ TweakMul \/ Negate

SpecTweak == InitTweak /\ [][NextTweak]_vars

\* ==================================================== concurrent callers
\* SpecConc: NThreads threads share the one context.  A call is not atomic: it
\* reads the context when it starts (the blinding scalar) and again when it
\* finishes (the blinding point), and other threads' calls may start and
\* finish in between.  Each thread has its own buffers and its own key (thread
\* t holds the key t), and all work on the session's digest.

Threads == 1..NThreads
ConcOps == { "pubkey_create", "sign", "sign_recoverable", "verify", "recover", "tweak_add" }

IdleThread(key, msg) ==
    [ pc |-> "idle", op |-> "none", key |-> key, msg |-> msg, off |-> 0,
      overlap |-> FALSE, res |-> << >> ]

\* What the helper `name` leaves its caller with, run on context c with the key
\* and digest given (verify and recover are given the signature and the public
\* key the key and digest determine).
RunHelper(name, c, key, msg) ==
    LET own == secp256k1_context_create_sign_verify
        sg == secp256k1_ecdsa_sign_recoverable_helper(own, Fill(SigLen), FillByte, msg, key)
        pk == secp256k1_pubkey_create_helper(own, Fill(UncompressedLen), UncompressedLen,
                                             key, TRUE)
    IN CASE name = "pubkey_create" ->
              secp256k1_pubkey_create_helper(c, Fill(UncompressedLen), UncompressedLen,
                                             key, FALSE)
         [] name = "sign" ->
              secp256k1_ecdsa_sign_helper(c, Fill(SigLen), msg, key)
         [] name = "sign_recoverable" ->
              secp256k1_ecdsa_sign_recoverable_helper(c, Fill(SigLen), FillByte, msg, key)
         [] name = "verify" ->
              secp256k1_ecdsa_verify_helper(c, sg.output, msg,
                                            SubSeq(pk.output, 1, pk.output_len))
         [] name = "recover" ->
              secp256k1_ecdsa_recover_helper(c, Fill(UncompressedLen), UncompressedLen,
                                             sg.output, sg.recid, msg, TRUE)
         [] OTHER ->
              secp256k1_ec_privkey_tweak_add_helper(c, key, msg)

InitConc ==
    /\ ctx = secp256k1_context_create_sign_verify
    /\ aborted = FALSE
    /\ op = "none"
    /\ ret = 0
    /\ mem = FreshMem
    /\ prev = NoCall
    /\ prov = NoProv
    /\ \E d \in Digests :
         /\ arg = [NoArg EXCEPT !.msg32 = d]
         /\ th = [t \in Threads |-> IdleThread(Ser32(t), d)]

Running(t) == th[t].pc = "running"

ThreadBegin(t) ==
    /\ th[t].pc = "idle"
    /\ \E name \in ConcOps :
         th' = [u \in Threads |->
                  IF u = t
                  THEN [ pc |-> "running", op |-> name, key |-> th[t].key, msg |-> th[t].msg,
                         off |-> ctx.scalar_offset,
                         overlap |-> \E v \in Threads \ {t} : Running(v),
                         res |-> << >> ]
                  ELSE IF Running(u) THEN [th[u] EXCEPT !.overlap = TRUE]
                  ELSE th[u]]
    /\ UNCHANGED << ctx, aborted, op, ret, arg, mem, prev, prov >>

ThreadEnd(t) ==
    /\ Running(t)
    /\ \E h \in { RunHelper(th[t].op, [ctx EXCEPT !.scalar_offset = th[t].off],
                            th[t].key, th[t].msg) } :
         th' = [th EXCEPT ![t].pc = "done", ![t].res = << h >>]
    /\ ctx' = ContextAfterHelper(th[t].op, ctx)
    /\ UNCHANGED << aborted, op, ret, arg, mem, prev, prov >>

ThreadReturn(t) ==
    /\ th[t].pc = "done"
    /\ th' = [th EXCEPT ![t] = IdleThread(th[t].key, th[t].msg)]
    /\ UNCHANGED << ctx, aborted, op, ret, arg, mem, prev, prov >>

NextConc == \E t \in Threads : ThreadBegin(t) \/ ThreadEnd(t) \/ ThreadReturn(t)

SpecConc == InitConc /\ [][NextConc]_vars

\* ================================================================ claims

SigR(sig64) == ParseBE(SubSeq(sig64, 1, ScalarBytes))
SigS(sig64) == ParseBE(SubSeq(sig64, ScalarBytes + 1, SigLen))

\* (r, s) -> (r, n - s): the other form of the same signature.
FlipS(sig64) == Ser32(SigR(sig64)) \o Ser32((CurveN - SigS(sig64)) % CurveN)

\* The library's own result of signing with the key and digest of the call.
SignedHere == secp256k1_ecdsa_sign_recoverable(ctx, arg.msg32, arg.private_key, NULL)

\* ------------------------------------------------------------------- C1
Fallible ==
    { "pubkey_create", "pubkey_parse", "sign", "sign_recoverable", "recover",
      "tweak_add", "tweak_mul", "negate" }

\* The caller's buffers as they were when the single call was made.
MemBeforeCall ==
    [FreshMem EXCEPT
       !.seckey = IF op \in {"tweak_add", "tweak_mul", "negate"} THEN arg.seckey ELSE @,
       !.output_len = IF op = "pubkey_create" THEN arg.output_len ELSE @,
       !.recovered_len = IF op = "recover" THEN arg.output_len ELSE @]

VerifySignConsistency ==
    /\ (op = "sign" /\ SeckeyValid(arg.private_key)) => (~aborted /\ ret = 1)
    /\ (op = "verify" /\ prov.sig = "sign" /\ prov.out # "none") => (~aborted /\ ret = 1)

VerifySignWitness ==
    /\ op = "verify"
    /\ prov.sig = "sign"
    /\ prov.out = "compressed"
    /\ arg.sig64 = mem.sig64
    /\ arg.pubkey_data = OutputBytes
    /\ ret = 1

\* ------------------------------------------------------------------- C3
\* C3: for every valid private key and every digest, sign_recoverable succeeds
\* with a recovery id in 0..3, recover of what it wrote succeeds, and the bytes
\* recovered equal the bytes pubkey_create writes for the same compressed flag,
\* also when the signature's s was replaced by n - s.
RecoveryConsistency ==
    /\ (op = "sign_recoverable" /\ SeckeyValid(arg.private_key))
         => (~aborted /\ ret = 1 /\ mem.recid \in 0..3)
    /\ (op = "recover" /\ prov.sig = "sign_recoverable") => (~aborted /\ ret = 1)
    /\ (prov.rec \in {"compressed", "uncompressed"} /\ prov.out = prov.rec)
         => RecoveredBytes = OutputBytes

RecoveryWitness ==
    /\ op = "recover"
    /\ ret = 1
    /\ prov.sig = "sign_recoverable"
    /\ prov.rec = "uncompressed"
    /\ prov.out = prov.rec
    /\ RecoveredBytes = OutputBytes
    /\ SignedHere.high

\* ------------------------------------------------------------------- C4
\* C4: every later sign call of a session (same key, same digest, same
\* context), whatever other helpers were called in between, returns what the
\* first one returned and, on success, writes the same 64 bytes.
SignDeterministic ==
    (op = "sign" /\ prov.nsign = 2)
      => /\ ret = prov.first[1].ret
         /\ ret = 1 => mem.sig64 = prov.first[1].sig64

SignAgainWitness ==
    /\ op = "sign"
    /\ prov.nsign = 2
    /\ prov.mixed
    /\ prov.sig = "sign"
    /\ prov.rec # "none"
    /\ ret = 1

\* ------------------------------------------------------------------- C5
\* r or s is zero or not below the group order.
SigOutOfRange(sig64) ==
    \/ SigR(sig64) = 0
    \/ SigS(sig64) = 0
    \/ SigR(sig64) >= CurveN
    \/ SigS(sig64) >= CurveN

\* The encodings of the points of the group (every point but infinity is a
\* multiple k.G, 0 < k < n).
CompressedEncodings ==
    LET F(t) == { SerializePoint(t[k], TRUE) : k \in 1..(CurveN - 1) } IN With1(F, GenTable)
UncompressedEncodings ==
    LET F(t) == { SerializePoint(t[k], FALSE) : k \in 1..(CurveN - 1) } IN With1(F, GenTable)
HybridEncodings ==
    LET F(t) == { << HybridTag(t[k]) >> \o Ser32(t[k].x) \o Ser32(t[k].y) : k \in 1..(CurveN - 1) }
    IN With1(F, GenTable)

LowS ==
    (op \in {"sign", "sign_recoverable"} /\ ret = 1)
      => /\ SigR(mem.sig64) \in 1..(CurveN - 1)
         /\ SigS(mem.sig64) >= 1
         /\ 2 * SigS(mem.sig64) <= CurveN

LowSWitness ==
    /\ op = "sign"
    /\ ret = 1
    /\ SignedHere.high
    /\ SigS(mem.sig64) = SignedHere.sig.s
    /\ 2 * SigS(mem.sig64) <= CurveN

\* ------------------------------------------------------------------- C7
\* What verify returns for the other form (r, n - s) of the signature of the
\* call, same digest, same key bytes.
VerifyFlipped ==
    secp256k1_ecdsa_verify_helper(ctx, FlipS(arg.sig64), arg.msg32, arg.pubkey_data)

TweakInvertible ==
    /\ (op = "tweak_add" /\ prev.op = "tweak_add" /\ prev.ret = 1
          /\ SeckeyValid(prev.arg.seckey)
          /\ ParseBE(arg.tweak) = (CurveN - ParseBE(prev.arg.tweak)) % CurveN)
         => (ret = 1 /\ mem.seckey = prev.arg.seckey)
    /\ (op = "negate" /\ SeckeyValid(arg.seckey)) => ret = 1
    /\ (op = "negate" /\ prev.op = "negate" /\ SeckeyValid(prev.arg.seckey))
         => (ret = 1 /\ mem.seckey = prev.arg.seckey)

TweakInvertibleWitness ==
    /\ op = "tweak_add"
    /\ prev.op = "tweak_add"
    /\ prev.ret = 1
    /\ ParseBE(prev.arg.tweak) = MaxTweak
    /\ ParseBE(arg.tweak) = CurveN - MaxTweak
    /\ arg.seckey # prev.arg.seckey
    /\ ret = 1
    /\ mem.seckey = prev.arg.seckey

====
